---------------------------- MODULE Spec2Model ----------------------------
(***************************************************************************)
(* A model of data/convert_daily_data.py: the conversion of prices to      *)
(* returns, the extraction of date keys from the vendor rows, the matching *)
(* of a daily series onto a list of target dates, and the pipeline         *)
(* match_dates_and_save that combines them.                                *)
(*                                                                         *)
(* Python values are represented as follows.                               *)
(*   - a str is a tuple of one-character strings;                          *)
(*   - a float is a normalised fraction <<n, d>> with d >= 0, where        *)
(*     <<1,0>>, <<-1,0>> and <<0,0>> stand for inf, -inf and nan (floating *)
(*     point rounding is not modelled);                                    *)
(*   - a list or a one-dimensional array is a tuple;                       *)
(*   - the outcome of a call is Return(value) or Raise(exception, where).  *)
(***************************************************************************)
EXTENDS Integers, Sequences, FiniteSets, TLC

VARIABLES
    fn,                 \* the function under call
    args,               \* its arguments
    pc,                 \* "call", "return", "raise"; the pipeline's position
    ret,                \* the outcome of the call
    target_data,        \* match_dates_and_save: rows of the target file
    RF_data,            \* match_dates_and_save: rows of the risk free file
    target_data_out,    \* match_dates_and_save: the target premiums
    input_list,         \* match_dates_and_save: the inputs not yet processed
    output_type,        \* match_dates_and_save: output type of the last input
    input_dates,        \* match_dates_and_save: date keys of the last input
    input_data,         \* match_dates_and_save: values handed to match_data
    matched_input_data, \* match_dates_and_save: matched values of the last input
    out_mat,            \* match_dates_and_save: the stacked matched series
    files,              \* the delimited files written so far
    mat_file,           \* the content of All_variables_matched.mat, once saved
    input_path,         \* match_dates_and_save: path of the last input
    disk                \* the files read: path -> lines

vars == <<fn, args, pc, ret, target_data, RF_data, target_data_out, input_list,
          output_type, input_dates, input_data, matched_input_data, out_mat, files,
          mat_file, input_path, disk>>

locals == <<target_data, RF_data, target_data_out, input_list, output_type,
            input_dates, input_data, matched_input_data, out_mat, files,
            mat_file, input_path, disk>>

-----------------------------------------------------------------------------
(* Bounds of the model. *)

MaxPrices == 3
MaxPrice == 3
MaxRows == 2
MaxSource == 3
MaxTargets == 3
MaxInputs == 2

-----------------------------------------------------------------------------
(* Outcomes. *)

Return(v) == [exc |-> "", where |-> "", value |-> v]

Raise(e, w) == [exc |-> e, where |-> w, value |-> <<>>]

Pending == [exc |-> "pending", where |-> "", value |-> <<>>]

-----------------------------------------------------------------------------
(* Sequences and strings. *)

Min(a, b) == IF a < b THEN a ELSE b

Abs(n) == IF n < 0 THEN -n ELSE n

Range(s) == {s[k] : k \in 1..Len(s)}

\* s[::-1]
Reverse(s) == [k \in 1..Len(s) |-> s[Len(s) + 1 - k]]

\* s[a:b] for 0 <= a, 0 <= b: a slice never fails, it is cut to the string
Slice(s, a, b) == IF a + 1 > Min(b, Len(s)) THEN <<>> ELSE SubSeq(s, a + 1, Min(b, Len(s)))

\* the concatenation of the strings of a list
RECURSIVE Concat(_)
Concat(parts) == IF parts = <<>> THEN <<>> ELSE Head(parts) \o Concat(Tail(parts))

\* the least position of character c in s, or 0
RECURSIVE Find(_, _, _)
Find(s, c, k) ==
    IF k > Len(s) THEN 0
    ELSE IF s[k] = c THEN k
    ELSE Find(s, c, k + 1)

\* s.split(c) for a one-character separator: empty fields are kept
RECURSIVE Split(_, _)
Split(s, c) ==
    LET k == Find(s, c, 1) IN
    IF k = 0 THEN <<s>>
    ELSE <<SubSeq(s, 1, k - 1)>> \o Split(SubSeq(s, k + 1, Len(s)), c)

Whitespace == {" ", "\t", "\n", "\r"}

\* s.strip()
RECURSIVE Strip(_)
Strip(s) ==
    IF s = <<>> THEN s
    ELSE IF s[1] \in Whitespace THEN Strip(Tail(s))
    ELSE IF s[Len(s)] \in Whitespace THEN Strip(SubSeq(s, 1, Len(s) - 1))
    ELSE s

\* s.split(): the maximal runs of characters that are not whitespace
RECURSIVE SplitWhitespace(_, _)
SplitWhitespace(s, word) ==
    IF s = <<>> THEN (IF word = <<>> THEN <<>> ELSE <<word>>)
    ELSE IF s[1] \in Whitespace
         THEN (IF word = <<>> THEN <<>> ELSE <<word>>) \o SplitWhitespace(Tail(s), <<>>)
    ELSE SplitWhitespace(Tail(s), Append(word, s[1]))

-----------------------------------------------------------------------------
(* Floats. *)

RECURSIVE GCD(_, _)
GCD(a, b) == IF b = 0 THEN a ELSE GCD(b, a % b)

Sign(n) == IF n > 0 THEN 1 ELSE IF n < 0 THEN -1 ELSE 0

Rat(n, d) ==
    IF d = 0 THEN <<Sign(n), 0>>
    ELSE LET g == GCD(Abs(n), Abs(d))
             s == Sign(d)
         IN  <<(s * n) \div g, (s * d) \div g>>

Float(n) == <<n, 1>>

Zero == Float(0)

\* a - b, for a finite b: inf and nan absorb
RatSub(a, b) == IF a[2] = 0 THEN a ELSE Rat(a[1] * b[2] - b[1] * a[2], a[2] * b[2])

\* a * b, for finite a and b
RatMul(a, b) == Rat(a[1] * b[1], a[2] * b[2])

\* a / b, for finite a and b: numpy divides by zero to inf or nan with a warning
RatDiv(a, b) == Rat(a[1] * b[2], a[2] * b[1])

Digits == {"0", "1", "2", "3", "4", "5", "6", "7", "8", "9"}

DigitValue(c) ==
    CASE c = "0" -> 0 [] c = "1" -> 1 [] c = "2" -> 2 [] c = "3" -> 3 [] c = "4" -> 4
      [] c = "5" -> 5 [] c = "6" -> 6 [] c = "7" -> 7 [] c = "8" -> 8 [] c = "9" -> 9

\* the strings float() is modelled for: the unsigned decimal integers
IsNumeric(s) == Len(s) > 0 /\ \A k \in 1..Len(s) : s[k] \in Digits

RECURSIVE DecimalValue(_)
DecimalValue(s) ==
    IF s = <<>> THEN 0
    ELSE 10 * DecimalValue(SubSeq(s, 1, Len(s) - 1)) + DigitValue(s[Len(s)])

\* float(s)
ParseFloat(s) == Float(DecimalValue(s))

-----------------------------------------------------------------------------
(* prices_to_returns *)

\* a slip that divides by the later price
RECURSIVE ReturnsFromLaterPrice(_, _)
ReturnsFromLaterPrice(p, i) ==
    IF i >= Len(p) - 1 THEN <<>>
    ELSE <<RatDiv(RatSub(p[i + 2], p[i + 1]), p[i + 2])>> \o ReturnsFromLaterPrice(p, i + 1)

\* the loop of lines 19-20, from index i (0-based) on
RECURSIVE ReturnsFrom(_, _)
ReturnsFrom(p, i) ==
    IF i >= Len(p) - 1 THEN <<>>
    ELSE <<RatDiv(RatSub(p[i + 2], p[i + 1]), p[i + 1])>> \o ReturnsFrom(p, i + 1)

prices_to_returns(prices) ==
    IF \E k \in 1..Len(prices) : ~IsNumeric(prices[k])
    THEN Raise("ValueError", "p.astype(float)")
    ELSE LET p == [k \in 1..Len(prices) |-> ParseFloat(prices[k])]
             m == Len(p)
         IN  IF m - 1 < 0 THEN Raise("ValueError", "np.zeros((m-1,1))")
             ELSE Return(ReturnsFrom(p, 0))

-----------------------------------------------------------------------------
(* get_dates_yahoo *)

\* lines 55-59: the date key of one date field
yahoo_date(yd) == Slice(Concat(Split(yd, "-")), 1, 9)

\* a slip that reverses the dates and leaves the values in file order
OrderedOutcomeValuesKept(order, yahoo_dates, returns) ==
    IF order = "chronological"
    THEN Return(<<Reverse(yahoo_dates), returns>>)
    ELSE IF order = "reverse"
    THEN Raise("UnboundLocalError", "yahoo_returns")
    ELSE Raise("ValueError", "'order' value is incorrect")

\* a slip that takes every order but "chronological" for the file order
OrderedOutcomeNoCheck(order, yahoo_dates, returns) ==
    IF order = "chronological"
    THEN Return(<<Reverse(yahoo_dates), Reverse(returns)>>)
    ELSE Return(<<yahoo_dates, returns>>)

\* lines 60-67: the lists in the order asked for
OrderedOutcome(order, yahoo_dates, returns) ==
    IF order = "chronological"
    THEN Return(<<Reverse(yahoo_dates), Reverse(returns)>>)
    ELSE IF order = "reverse"
    THEN Raise("UnboundLocalError", "yahoo_returns")
    ELSE Raise("ValueError", "'order' value is incorrect")

get_dates_yahoo(yahoo_list, order) ==
    IF \E k \in 1..Len(yahoo_list) : Len(yahoo_list[k]) < 1
    THEN Raise("IndexError", "item[0]")
    ELSE
    LET list_of_lists == [k \in 1..Len(yahoo_list) |-> Split(yahoo_list[k][1], "\t")]
    IN
    IF \E k \in 1..Len(list_of_lists) : Len(list_of_lists[k]) < 5
    THEN Raise("IndexError", "item[4]")
    ELSE
    LET dates == [k \in 1..Len(list_of_lists) |-> list_of_lists[k][1]]
        returns == [k \in 1..Len(list_of_lists) |-> list_of_lists[k][5]]
        yahoo_dates == [k \in 1..Len(dates) |-> yahoo_date(dates[k])]
    IN
    OrderedOutcome(order, yahoo_dates, returns)

-----------------------------------------------------------------------------
(* match_data *)

\* line 79: the 0-based positions of the daily dates that are target dates
RECURSIVE DailyIndices(_, _, _)
DailyIndices(daily_dates, target_dates, idx) ==
    IF idx >= Len(daily_dates) THEN <<>>
    ELSE (IF daily_dates[idx + 1] \in Range(target_dates) THEN <<idx>> ELSE <<>>)
         \o DailyIndices(daily_dates, target_dates, idx + 1)

\* lines 88-95: the walk over the target dates, from target position i
\* (0-based) with j matched positions consumed
RECURSIVE MatchLoop(_, _, _, _, _, _, _, _, _)
MatchLoop(daily_dates, daily_returns, target_dates, daily_indices, misses, i, j, daily_matched_dates, daily_matched_returns) ==
    IF i >= Len(target_dates)
    THEN Return(<<misses, daily_matched_dates, daily_matched_returns>>)
    ELSE IF j >= Len(daily_indices)
    THEN Raise("IndexError", "daily_indices[j]")
    ELSE IF daily_indices[j + 1] >= Len(daily_returns)
    THEN Raise("IndexError", "daily_returns[daily_indices[j]]")
    ELSE IF i >= Len(daily_matched_returns)
    THEN Raise("IndexError", "daily_matched_returns[i]")
    ELSE IF ~IsNumeric(daily_dates[daily_indices[j + 1] + 1])
    THEN Raise("ValueError", "daily_matched_dates[i]")
    ELSE MatchLoop(daily_dates, daily_returns, target_dates, daily_indices, misses,
             i + 1,
             IF target_dates[i + 1] \notin Range(misses) THEN j + 1 ELSE j,
             [daily_matched_dates EXCEPT
                 ![i + 1] = ParseFloat(daily_dates[daily_indices[j + 1] + 1])],
             [daily_matched_returns EXCEPT
                 ![i + 1] = daily_returns[daily_indices[j + 1] + 1]])

match_data(daily_dates, daily_returns, target_dates) ==
    LET daily_indices == DailyIndices(daily_dates, target_dates, 0)
        zeros == [k \in 1..Len(daily_indices) |-> Zero]
        matched == [k \in 1..Len(daily_indices) |-> daily_dates[daily_indices[k] + 1]]
        matches == SelectSeq(matched, LAMBDA item : item \in Range(target_dates))
        misses == SelectSeq(target_dates, LAMBDA item : item \notin Range(matches))
    IN  MatchLoop(daily_dates, daily_returns, target_dates, daily_indices, misses,
                  0, 0, zeros, zeros)

-----------------------------------------------------------------------------
(* load_text *)

\* the value None of a separator
None == "None"

\* lines 31-35: the fields of every line
SplitRows(lines, sep) ==
    [k \in 1..Len(lines) |->
        IF sep # None THEN Split(Strip(lines[k]), sep)
        ELSE SplitWhitespace(Strip(lines[k]), <<>>)]

\* header_return is a 0-based line number, or -1 for None
load_text(lines, sep, num_headerlines, header_return) ==
    LET out == SplitRows(lines, sep) IN
    IF header_return # -1 /\ header_return >= Len(out)
    THEN Raise("IndexError", "out[header_return]")
    ELSE Return(<<IF header_return # -1 THEN out[header_return + 1] ELSE <<>>,
                  IF num_headerlines >= Len(out) THEN <<>>
                  ELSE SubSeq(out, num_headerlines + 1, Len(out))>>)

-----------------------------------------------------------------------------
(* match_dates_and_save *)

\* the value None of a path
NoPath == <<>>

\* line 126
target_indices == <<1, 4, 7, 10, 13, 16>>

\* 1./(12*100.)
MonthlyFactor == Rat(1, 12 * 100)

IsRectangular(rows, width) == \A k \in 1..Len(rows) : Len(rows[k]) = width

AllNumeric(rows) == \A k \in 1..Len(rows) : \A c \in 1..Len(rows[k]) : IsNumeric(rows[k][c])

\* line 127: the target premiums. The columns are selected after the
\* subtraction, which broadcasts the risk free column over the target columns.
TargetPremiums(target, RF) ==
    IF ~AllNumeric(target) \/ ~AllNumeric(RF)
           \/ (Len(target) > 0 /\ ~IsRectangular(target, Len(target[1])))
    THEN Raise("ValueError", "astype(float)")
    ELSE IF Len(target) = 0
    THEN Raise("IndexError", "[:,target_indices]")
    ELSE IF ~IsRectangular(RF, 1) \/ (Len(RF) # Len(target) /\ Len(RF) # 1 /\ Len(target) # 1)
    THEN Raise("ValueError", "operands could not be broadcast together")
    ELSE IF \E c \in 1..Len(target_indices) : target_indices[c] >= Len(target[1])
    THEN Raise("IndexError", "[:,target_indices]")
    ELSE Return([k \in 1..(IF Len(target) = 1 THEN Len(RF) ELSE Len(target)) |->
                   [c \in 1..Len(target_indices) |->
                       RatSub(ParseFloat(target[IF Len(target) = 1 THEN 1 ELSE k]
                                               [target_indices[c] + 1]),
                              RatMul(MonthlyFactor,
                                     ParseFloat(RF[IF Len(RF) = 1 THEN 1 ELSE k][1])))]])

\* line 165: the matched returns less the squeezed risk free column
Premiums(matched, RF) ==
    IF ~AllNumeric(RF) THEN Raise("ValueError", "astype(float)")
    ELSE IF ~IsRectangular(RF, 1) \/ (Len(RF) # Len(matched) /\ Len(RF) # 1 /\ Len(matched) # 1)
    THEN Raise("ValueError", "operands could not be broadcast together")
    ELSE Return([k \in 1..(IF Len(matched) = 1 THEN Len(RF) ELSE Len(matched)) |->
                   RatSub(matched[IF Len(matched) = 1 THEN 1 ELSE k],
                          RatMul(MonthlyFactor,
                                 ParseFloat(RF[IF Len(RF) = 1 THEN 1 ELSE k][1])))])

\* line 147: output_type is "returns" or "premiums". The operand "premiums",
\* a non-empty string, is true.
Truthy(string) == string # ""

ConvertsToReturns(type) == (type = "returns") \/ Truthy("premiums")

\* line 169: the name of the output file
OutName(path) ==
    LET parts == Split(path, "/") IN
    Split(parts[Len(parts)], ".")[1] \o <<"_", "r", "e", "t", "u", "r", "n", "s", ".", "c", "s", "v">>

\* line 144
TargetDatesOf(rows) == [k \in 1..Len(rows) |-> rows[k][1]]

\* the array transposed: a one-dimensional array is its own transpose
Transpose(rows) ==
    IF Len(rows) <= 1 THEN rows
    ELSE [c \in 1..Len(rows[1]) |-> [k \in 1..Len(rows) |-> rows[k][c]]]

-----------------------------------------------------------------------------
(* The inputs the calls are checked on. *)

SeqsUpTo(S, n) == UNION {[1..k -> S] : k \in 0..n}

DigitChars == <<"0", "1", "2", "3", "4", "5", "6", "7", "8", "9">>

\* the decimal string of a natural number
RECURSIVE ToStr(_)
ToStr(n) == IF n < 10 THEN <<DigitChars[n + 1]>> ELSE ToStr(n \div 10) \o <<DigitChars[(n % 10) + 1]>>

\* sep.join(parts)
RECURSIVE Join(_, _)
Join(parts, sep) ==
    IF parts = <<>> THEN <<>>
    ELSE IF Len(parts) = 1 THEN parts[1]
    ELSE parts[1] \o sep \o Join(Tail(parts), sep)

Days == 1..3

\* the date 2020-01-dd as the vendor writes it, and as the target file does
HyphenDate(day) == <<"2", "0", "2", "0", "-", "0", "1", "-", "0">> \o ToStr(day)

DateKey(day) == <<"2", "0", "2", "0", "0", "1", "0">> \o ToStr(day)

\* the same date as the first field of a row that opens with a quote
QuotedDate(day) == <<"\"">> \o HyphenDate(day)

\* a row of the vendor: one comma field holding date, open, high, low and
\* close, separated by tabs
VendorRow(date, close) == <<Join(<<date, <<"1">>, <<"1">>, <<"1">>, close>>, <<"\t">>)>>

Closes == {ToStr(10), ToStr(12)}

PriceStrings == {ToStr(n) : n \in 0..MaxPrice}

YahooItems ==
    {VendorRow(d, c) : d \in {HyphenDate(1), QuotedDate(1), QuotedDate(2)}, c \in Closes}
    \cup {<<HyphenDate(1)>>}

Orders == {"chronological", "reverse", "bogus", "Chronological"}

IsSorted(s) == \A k \in 1..(Len(s) - 1) : DecimalValue(s[k]) <= DecimalValue(s[k + 1])

IsIncreasing(s) == \A k \in 1..(Len(s) - 1) : DecimalValue(s[k]) < DecimalValue(s[k + 1])

DateKeys == {DateKey(d) : d \in Days}

\* daily series in chronological order, a date possibly repeated
SourceDates == {s \in SeqsUpTo(DateKeys, MaxSource) : IsSorted(s)}

\* target date grids: increasing dates
TargetDates == {s \in SeqsUpTo(DateKeys, MaxTargets) : IsIncreasing(s)}

Idle ==
    /\ target_data = <<>>
    /\ RF_data = <<>>
    /\ target_data_out = <<>>
    /\ input_list = <<>>
    /\ output_type = ""
    /\ input_dates = <<>>
    /\ input_data = <<>>
    /\ matched_input_data = <<>>
    /\ out_mat = <<>>
    /\ files = {}
    /\ mat_file = <<>>
    /\ input_path = <<>>
    /\ disk = <<>>

Outcome(r) == IF r.exc = "" THEN "return" ELSE "raise"

-----------------------------------------------------------------------------
(* The files match_dates_and_save is checked on. *)

TargetPath == <<".", "/", "r", "a", "w", "/", "F", "F", "6", "P", "o", "r", "t", "f", "o", "l", "i", "o", "s", ".", "t", "x", "t">>

RiskFreePath == <<".", "/", "r", "e", "t", "u", "r", "n", "s", "/", "L", "i", "b", "o", "r", "_", "r", "e", "t", "u", "r", "n", "s", ".", "c", "s", "v">>

InputPaths == {<<".", "/", "r", "a", "w", "/", "N", "a", "s", "d", "a", "q", ".", "c", "s", "v">>, <<".", "/", "r", "a", "w", "/", "V", "I", "X", ".", "c", "s", "v">>}

OutputTypes == {"returns", "prices", "premiums"}

RECURSIVE Descending(_)
Descending(S) ==
    IF S = {} THEN <<>>
    ELSE LET top == CHOOSE x \in S : \A y \in S : y <= x
         IN  <<top>> \o Descending(S \ {top})

\* a file of the vendor: a header line, then one line per day, newest first,
\* the close of day d being scale * d
InputFile(days, scale) ==
    <<<<"D", "a", "t", "e", "\t", "O", "p", "e", "n", "\t", "H", "i", "g", "h", "\t", "L", "o", "w", "\t", "C", "l", "o", "s", "e", ",", "V", "o", "l", "u", "m", "e", "\n">>>> \o
    [k \in 1..Cardinality(days) |->
        VendorRow(QuotedDate(Descending(days)[k]), ToStr(scale * Descending(days)[k]))[1]
            \o <<",", "9", "\n">>]

\* a line of the target file: the date key and sixteen columns
TargetLine(key) ==
    key \o Concat([c \in 1..16 |-> <<" ", " ">> \o ToStr(c)]) \o <<"\n">>

TargetFile(keys) ==
    <<<<"P", "o", "r", "t", "f", "o", "l", "i", "o", "s", "\n">>, <<"d", "a", "t", "e", " ", " ", "p", "1", " ", " ", "p", "2", "\n">>, <<"\n">>>>
    \o [k \in 1..Len(keys) |-> TargetLine(keys[k])]

\* the risk free file: one annual percentage per target date
RiskFreeFile(n) == [k \in 1..n |-> ToStr(k) \o <<"\n">>]

Disk(days, keys) ==
    [path \in InputPaths \cup {TargetPath, RiskFreePath} |->
        IF path = TargetPath THEN TargetFile(keys)
        ELSE IF path = RiskFreePath THEN RiskFreeFile(Len(keys))
        ELSE IF path = <<".", "/", "r", "a", "w", "/", "N", "a", "s", "d", "a", "q", ".", "c", "s", "v">> THEN InputFile(days, 1)
        ELSE InputFile(Days, 5)]

-----------------------------------------------------------------------------
(* A call of prices_to_returns. *)

InitReturns ==
    /\ fn = "prices_to_returns"
    /\ args \in {[p |-> s] : s \in SeqsUpTo(PriceStrings, MaxPrices)}
    /\ pc = "call"
    /\ ret = Pending
    /\ Idle

CallPricesToReturns ==
    /\ fn = "prices_to_returns"
    /\ pc = "call"
    /\ ret' = prices_to_returns(args.p)
    /\ pc' = Outcome(ret')
    /\ UNCHANGED <<fn, args, locals>>

SpecReturns == InitReturns /\ [][CallPricesToReturns]_vars

-----------------------------------------------------------------------------
(* A call of get_dates_yahoo. *)

InitDates ==
    /\ fn = "get_dates_yahoo"
    /\ args \in {[yahoo_list |-> l, order |-> o] :
                    l \in SeqsUpTo(YahooItems, MaxRows), o \in Orders}
    /\ pc = "call"
    /\ ret = Pending
    /\ Idle

CallGetDatesYahoo ==
    /\ fn = "get_dates_yahoo"
    /\ pc = "call"
    /\ ret' = get_dates_yahoo(args.yahoo_list, args.order)
    /\ pc' = Outcome(ret')
    /\ UNCHANGED <<fn, args, locals>>

SpecDates == InitDates /\ [][CallGetDatesYahoo]_vars

-----------------------------------------------------------------------------
(* A call of match_data. *)

InitMatch ==
    /\ fn = "match_data"
    /\ args \in {[daily_dates |-> d, daily_returns |-> v, target_dates |-> t] :
                    d \in SourceDates, v \in SeqsUpTo({Float(10), Float(12)}, MaxSource),
                    t \in TargetDates}
    /\ Len(args.daily_dates) = Len(args.daily_returns)
    /\ pc = "call"
    /\ ret = Pending
    /\ Idle

CallMatchData ==
    /\ fn = "match_data"
    /\ pc = "call"
    /\ ret' = match_data(args.daily_dates, args.daily_returns, args.target_dates)
    /\ pc' = Outcome(ret')
    /\ UNCHANGED <<fn, args, locals>>

SpecMatch == InitMatch /\ [][CallMatchData]_vars

-----------------------------------------------------------------------------
(* A run of match_dates_and_save. *)

InitPipeline ==
    /\ fn = "match_dates_and_save"
    /\ args \in [input_list : SeqsUpTo(InputPaths \X OutputTypes, MaxInputs),
                 target_path : {TargetPath},
                 order : {"chronological", "bogus"},
                 save_mat : BOOLEAN,
                 input_sep : {","},
                 target_sep : {None},
                 risk_free_path : {NoPath, RiskFreePath}]
    /\ disk \in {Disk(days, keys) : days \in {S \in SUBSET Days : Cardinality(S) <= MaxSource},
                                    keys \in TargetDates}
    /\ pc = "call"
    /\ ret = Pending
    /\ target_data = <<>>
    /\ RF_data = <<>>
    /\ target_data_out = <<>>
    /\ input_list = <<>>
    /\ output_type = ""
    /\ input_dates = <<>>
    /\ input_data = <<>>
    /\ matched_input_data = <<>>
    /\ out_mat = <<>>
    /\ files = {}
    /\ mat_file = <<>>
    /\ input_path = <<>>

\* lines 112-127: the target data and, with a risk free path, the target
\* premiums. out_mat = <<>> stands for None.
LoadTarget ==
    /\ fn = "match_dates_and_save"
    /\ pc = "call"
    /\ \E target \in {load_text(disk[args.target_path], args.target_sep, 3, 1)} :
       \E RF \in {IF args.risk_free_path = NoPath THEN Pending
                   ELSE load_text(disk[args.risk_free_path], args.input_sep, 0, -1)} :
       \E premiums \in {IF target.exc # "" \/ args.risk_free_path = NoPath THEN Pending
                         ELSE TargetPremiums(target.value[2], RF.value[2])} :
           IF target.exc # ""
           THEN /\ ret' = target
                /\ pc' = "raise"
                /\ UNCHANGED <<target_data, RF_data, target_data_out>>
           ELSE IF args.risk_free_path = NoPath
           THEN /\ target_data' = target.value[2]
                /\ pc' = "loop"
                /\ UNCHANGED <<ret, RF_data, target_data_out>>
           ELSE IF premiums.exc # ""
           THEN /\ target_data' = target.value[2]
                /\ RF_data' = RF.value[2]
                /\ ret' = premiums
                /\ pc' = "raise"
                /\ UNCHANGED target_data_out
           ELSE /\ target_data' = target.value[2]
                /\ RF_data' = RF.value[2]
                /\ target_data_out' = premiums.value
                /\ pc' = "loop"
                /\ UNCHANGED ret
    /\ input_list' = args.input_list
    /\ out_mat' = <<>>
    /\ UNCHANGED <<fn, args, output_type, input_dates, input_data, matched_input_data,
                   files, mat_file, input_path, disk>>

\* lines 130-151: the next input is loaded, its dates are taken in the default
\* order of get_dates_yahoo (the order argument of match_dates_and_save is
\* not passed on) and its values are converted
LoadInput ==
    /\ fn = "match_dates_and_save"
    /\ pc = "loop"
    /\ input_list # <<>>
    /\ \E input_tuple \in {Head(input_list)} :
       \E loaded \in {load_text(disk[input_tuple[1]], args.input_sep, 1, 0)} :
       \E dated \in {IF loaded.exc # "" THEN Pending
                      ELSE get_dates_yahoo(loaded.value[2], "chronological")} :
       \E converted \in {IF dated.exc # "" THEN Pending
                          ELSE IF ConvertsToReturns(input_tuple[2])
                          THEN prices_to_returns(dated.value[2])
                          ELSE Return(dated.value[2])} :
           /\ input_path' = input_tuple[1]
           /\ output_type' = input_tuple[2]
           /\ IF loaded.exc # ""
              THEN /\ ret' = loaded
                   /\ pc' = "raise"
                   /\ UNCHANGED <<input_dates, input_data>>
              ELSE IF dated.exc # ""
              THEN /\ ret' = dated
                   /\ pc' = "raise"
                   /\ UNCHANGED <<input_dates, input_data>>
              ELSE IF \E k \in 1..Len(target_data) : Len(target_data[k]) < 1
              THEN /\ ret' = Raise("IndexError", "td[0]")
                   /\ pc' = "raise"
                   /\ input_dates' = dated.value[1]
                   /\ input_data' = dated.value[2]
              ELSE IF converted.exc # ""
              THEN /\ ret' = converted
                   /\ pc' = "raise"
                   /\ input_dates' = dated.value[1]
                   /\ input_data' = dated.value[2]
              ELSE /\ input_dates' = dated.value[1]
                   /\ input_data' = converted.value
                   /\ pc' = "match"
                   /\ UNCHANGED ret
    /\ input_list' = Tail(input_list)
    /\ UNCHANGED <<fn, args, target_data, RF_data, target_data_out, matched_input_data,
                   out_mat, files, mat_file, disk>>

\* lines 153-177: the input is matched to the target dates, turned into
\* premiums when asked for, written to its file and stacked
MatchAndSave ==
    /\ fn = "match_dates_and_save"
    /\ pc = "match"
    /\ \E matched \in {match_data(input_dates, input_data, TargetDatesOf(target_data))} :
       \E final \in {IF matched.exc # "" THEN Pending
                      ELSE IF output_type = "premiums" /\ args.risk_free_path # NoPath
                      THEN Premiums(matched.value[3], RF_data)
                      ELSE Return(matched.value[3])} :
       \E outfile \in {[dir |-> output_type, name |-> OutName(input_path)]} :
       \E written \in {{f \in files : f.dir # outfile.dir \/ f.name # outfile.name}
                          \cup {[dir |-> outfile.dir, name |-> outfile.name,
                                 content |-> final.value]}} :
           IF matched.exc # ""
           THEN /\ ret' = matched
                /\ pc' = "raise"
                /\ UNCHANGED <<matched_input_data, files, out_mat>>
           ELSE IF final.exc # ""
           THEN /\ ret' = final
                /\ pc' = "raise"
                /\ matched_input_data' = matched.value[3]
                /\ UNCHANGED <<files, out_mat>>
           ELSE IF args.save_mat /\ out_mat # <<>> /\ Len(out_mat[1]) # Len(final.value)
           THEN /\ ret' = Raise("ValueError", "np.vstack")
                /\ pc' = "raise"
                /\ matched_input_data' = final.value
                /\ files' = written
                /\ UNCHANGED out_mat
           ELSE /\ matched_input_data' = final.value
                /\ files' = written
                /\ out_mat' = IF args.save_mat THEN Append(out_mat, final.value) ELSE out_mat
                /\ pc' = "loop"
                /\ UNCHANGED ret
    /\ UNCHANGED <<fn, args, target_data, RF_data, target_data_out, input_list,
                   output_type, input_dates, input_data, mat_file, input_path, disk>>

\* lines 179-182: the stacked series and the target premiums are saved
SaveMat ==
    /\ fn = "match_dates_and_save"
    /\ pc = "loop"
    /\ input_list = <<>>
    /\ IF ~args.save_mat
       THEN /\ ret' = Return(<<>>)
            /\ pc' = "return"
            /\ UNCHANGED mat_file
       ELSE IF out_mat = <<>>
       THEN /\ ret' = Raise("AttributeError", "out_mat.T")
            /\ pc' = "raise"
            /\ UNCHANGED mat_file
       ELSE IF args.risk_free_path = NoPath
       THEN /\ ret' = Raise("NameError", "target_data_out")
            /\ pc' = "raise"
            /\ UNCHANGED mat_file
       ELSE /\ mat_file' = [predictors |-> Transpose(out_mat), targets |-> target_data_out]
            /\ ret' = Return(<<>>)
            /\ pc' = "return"
    /\ UNCHANGED <<fn, args, target_data, RF_data, target_data_out, input_list,
                   output_type, input_dates, input_data, matched_input_data, out_mat,
                   files, input_path, disk>>

NextPipeline == LoadTarget \/ LoadInput \/ MatchAndSave \/ SaveMat

SpecPipeline == InitPipeline /\ [][NextPipeline]_vars

-----------------------------------------------------------------------------
(* Properties of prices_to_returns. *)

\* entry i (0-based) of the returned sequence is the fraction
\* (p[i+1]-p[i])/p[i]: the value r with r * p[i] = p[i+1] - p[i], or the
\* signed infinity (nan for 0/0) when p[i] = 0
IsSimpleReturn(r, a, b) ==
    IF a = 0 THEN r = <<Sign(b - a), 0>>
    ELSE r[2] > 0 /\ r[1] * a = (b - a) * r[2]

\* C6 as stated: for any price sequence p of length m, prices_to_returns
\* returns m-1 entries, entry i being (p[i+1]-p[i])/p[i].
ReturnsOfAnySequence ==
    (fn = "prices_to_returns" /\ pc # "call") =>
        /\ pc = "return"
        /\ Len(ret.value) = Len(args.p) - 1
        /\ \A i \in 0..(Len(args.p) - 2) :
              IsSimpleReturn(ret.value[i + 1], DecimalValue(args.p[i + 1]),
                             DecimalValue(args.p[i + 2]))

\* C6 as amended: for a price sequence p of length m >= 1, prices_to_returns
\* returns m-1 entries, entry i being (p[i+1]-p[i])/p[i]; for the empty
\* sequence it raises ValueError.
ReturnsAreSimpleReturns ==
    (fn = "prices_to_returns" /\ pc # "call") =>
        IF Len(args.p) = 0
        THEN pc = "raise" /\ ret.exc = "ValueError"
        ELSE /\ pc = "return"
             /\ Len(ret.value) = Len(args.p) - 1
             /\ \A i \in 0..(Len(args.p) - 2) :
                   IsSimpleReturn(ret.value[i + 1], DecimalValue(args.p[i + 1]),
                                  DecimalValue(args.p[i + 2]))

\* prices 2, 3, 1 give the returns 1/2 and -2/3
ReturnsWitness ==
    /\ fn = "prices_to_returns"
    /\ pc = "return"
    /\ args.p = <<ToStr(2), ToStr(3), ToStr(1)>>
    /\ ret.value = <<<<1, 2>>, <<-2, 3>>>>

-----------------------------------------------------------------------------
(* Properties of get_dates_yahoo. *)

\* the rows of the vendor's format: a first field of at least five tab fields
WellFormed(yahoo_list) ==
    \A k \in 1..Len(yahoo_list) :
        Len(yahoo_list[k]) >= 1 /\ Len(Split(yahoo_list[k][1], "\t")) >= 5

\* a hyphenated year-month-day date: dddd-dd-dd
IsHyphenDate(s) ==
    /\ Len(s) = 10
    /\ \A k \in 1..10 : IF k \in {5, 8} THEN s[k] = "-" ELSE s[k] \in Digits

DateFieldOf(item) == Split(item[1], "\t")[1]

ValueFieldOf(item) == Split(item[1], "\t")[5]

\* C5: with order "reverse" the call returns the date keys and the values in
\* the order of the input rows.
ReverseOrderReturnsNative ==
    (fn = "get_dates_yahoo" /\ pc # "call" /\ args.order = "reverse"
        /\ Len(args.yahoo_list) >= 1 /\ WellFormed(args.yahoo_list)) =>
        /\ pc = "return"
        /\ Len(ret.value) = 2
        /\ Len(ret.value[1]) = Len(args.yahoo_list)
        /\ Len(ret.value[2]) = Len(args.yahoo_list)
        /\ \A k \in 1..Len(args.yahoo_list) :
              /\ ret.value[1][k] = yahoo_date(DateFieldOf(args.yahoo_list[k]))
              /\ ret.value[2][k] = ValueFieldOf(args.yahoo_list[k])

\* C7: the date key of a row whose date field is a hyphenated year-month-day
\* date is its eight digits year+month+day.
DateKeyIsEightDigits ==
    (fn = "get_dates_yahoo" /\ pc = "return") =>
        \A k \in 1..Len(args.yahoo_list) :
            LET yd == DateFieldOf(args.yahoo_list[k])
                key == ret.value[1][Len(args.yahoo_list) + 1 - k]
            IN  IsHyphenDate(yd) =>
                    /\ Len(key) = 8
                    /\ \A c \in 1..Len(key) : key[c] \in Digits
                    /\ key = SelectSeq(yd, LAMBDA c : c # "-")

\* C8: with order "chronological" the call returns on rows of the vendor's
\* format, and the date list and the value list it returns are each the
\* reverse of the lists parsed from the rows: entry k of both comes from row
\* n+1-k.
ChronologicalReversesBoth ==
    (fn = "get_dates_yahoo" /\ pc # "call" /\ args.order = "chronological") =>
        LET n == Len(args.yahoo_list) IN
        /\ WellFormed(args.yahoo_list) => pc = "return"
        /\ pc = "return" =>
              /\ Len(ret.value) = 2
              /\ Len(ret.value[1]) = n
              /\ Len(ret.value[2]) = n
              /\ \A k \in 1..n :
                    /\ ret.value[1][k] = yahoo_date(DateFieldOf(args.yahoo_list[n + 1 - k]))
                    /\ ret.value[2][k] = ValueFieldOf(args.yahoo_list[n + 1 - k])

\* two rows with different dates and values, returned in reverse
ChronologicalWitness ==
    /\ fn = "get_dates_yahoo"
    /\ pc = "return"
    /\ args.order = "chronological"
    /\ args.yahoo_list = <<VendorRow(QuotedDate(2), ToStr(12)), VendorRow(QuotedDate(1), ToStr(10))>>
    /\ ret.value = <<<<DateKey(1), DateKey(2)>>, <<ToStr(10), ToStr(12)>>>>

\* C9: with an order other than "chronological" and "reverse" the call fails
\* and returns no list; on rows of the vendor's format the failure is the
\* ValueError of the order check.
OtherOrderRaisesValueError ==
    (fn = "get_dates_yahoo" /\ pc # "call"
        /\ args.order \notin {"chronological", "reverse"}) =>
        /\ pc = "raise"
        /\ ret.value = <<>>
        /\ WellFormed(args.yahoo_list) => ret.exc = "ValueError"

\* a call with order "bogus" on two rows has raised ValueError
OtherOrderWitness ==
    /\ fn = "get_dates_yahoo"
    /\ pc = "raise"
    /\ args.order = "bogus"
    /\ Len(args.yahoo_list) = 2
    /\ WellFormed(args.yahoo_list)
    /\ ret.exc = "ValueError"

-----------------------------------------------------------------------------
(* Properties of match_data. *)

\* C1: whenever match_data returns, the matched dates and the matched values
\* have one entry per target date.
MatchedLengthIsTargetLength ==
    (fn = "match_data" /\ pc = "return") =>
        /\ Len(ret.value[2]) = Len(args.target_dates)
        /\ Len(ret.value[3]) = Len(args.target_dates)

\* C2: targets 20200101, 20200102, 20200103 and the source (20200101, 10),
\* (20200103, 12) give the matched values 10, 12, 12 and the misses 20200102.
MatchExampleByTheWalk ==
    (/\ fn = "match_data"
     /\ pc # "call"
     /\ args.daily_dates = <<DateKey(1), DateKey(3)>>
     /\ args.daily_returns = <<Float(10), Float(12)>>
     /\ args.target_dates = <<DateKey(1), DateKey(2), DateKey(3)>>) =>
        /\ pc = "return"
        /\ ret.value[3] = <<Float(10), Float(12), Float(12)>>
        /\ ret.value[1] = <<DateKey(2)>>

\* C3: in a returned series, a target date with no exact match among the
\* source dates carries the date and the value of the latest matched source
\* date earlier than it.
MissesFilledFromPrevious ==
    (fn = "match_data" /\ pc = "return") =>
        \A i \in 1..Len(args.target_dates) :
            LET t == args.target_dates[i] IN
            t \notin Range(args.daily_dates) =>
                \E q \in 1..Len(args.daily_dates) :
                    /\ args.daily_dates[q] \in Range(args.target_dates)
                    /\ DecimalValue(args.daily_dates[q]) < DecimalValue(t)
                    /\ \A q2 \in 1..Len(args.daily_dates) :
                          (/\ args.daily_dates[q2] \in Range(args.target_dates)
                           /\ DecimalValue(args.daily_dates[q2]) < DecimalValue(t))
                          => DecimalValue(args.daily_dates[q2]) <= DecimalValue(args.daily_dates[q])
                    /\ i <= Len(ret.value[2])
                    /\ ret.value[2][i] = ParseFloat(args.daily_dates[q])
                    /\ ret.value[3][i] = args.daily_returns[q]

-----------------------------------------------------------------------------
(* Properties of match_dates_and_save. *)

\* the prices of an input file as get_dates_yahoo parses them
ParsedPrices(path) ==
    get_dates_yahoo(load_text(disk[path], ",", 1, 0).value[2], "chronological").value[2]

\* C4: an input of output type "prices" is not converted: the values handed
\* to match_data are its parsed prices, one per dated row.
PricesAreNotConverted ==
    (fn = "match_dates_and_save" /\ pc = "match" /\ output_type = "prices") =>
        /\ Len(input_data) = Len(input_dates)
        /\ Len(input_data) = Len(ParsedPrices(input_path))
        /\ \A k \in 1..Len(input_data) :
              input_data[k] = ParseFloat(ParsedPrices(input_path)[k])

\* C10: in match_dates_and_save, match_data never reads the converted values
\* at a position past their end.
MatchReadsInsideReturns ==
    (fn = "match_dates_and_save" /\ pc = "raise") =>
        ~(ret.exc = "IndexError" /\ ret.where = "daily_returns[daily_indices[j]]")

=============================================================================
